---- MODULE Spec2Model ----
(***************************************************************************)
(* PoD Protocol Python SDK: the session-key lifecycle manager              *)
(* (SessionKeysService) and the Jito bundle relay client                   *)
(* (JitoBundlesService), as state machines.                                *)
(*                                                                         *)
(* Time is wall-clock seconds, observed on a grid of TickStep seconds.     *)
(* Every coroutine runs atomically between two network suspensions, as     *)
(* asyncio schedules it; a handler that awaits the network is split at     *)
(* that await into a Begin and an End action.                              *)
(***************************************************************************)
EXTENDS Integers, Sequences, FiniteSets, TLC

\* ------------------------------------------------------------- bounds
MaxTokens == 2
MaxIssued == 1
MaxTicks == 3
MaxInFlight == 2
MaxCount == 3
PairInFlight == 1
MaxGroupLen == 7
NumInstructions == 2
MaxPrepTxs == 3
MaxTxLen == 2
MaxEstimateCount == 3
MaxBundleIds == 2
MaxRetries == 3
MaxTxs == 6
MaxBundleCalls == 3

\* ------------------------------------------------ program constants
RateWindow == 60
Unlimited == -1
MaxBundleSize == 5
RetryDelay == 1
MaxInstructionsPerTx == 3
ComputeUnitLimit == 200000
DefaultPriorityFee == 1000
BaseFeePerTx == 5000
DefaultAverageFee == 1000
MinTip == 10000
FallbackPriorityFee == 2000
FallbackTip == 15000
FallbackTotalPerTx == 22000
NumServices == 10

TickStep == RateWindow \div 2
MaxTime == MaxTicks * TickStep
Tokens == 1..MaxTokens

\* Optional[int]: <<>> is None, <<n>> is n.
None == <<>>
Some(n) == <<n>>

ExpiryTimes == {TickStep, 2 * TickStep}
MaxUsesChoices == {None, Some(0), Some(1), Some(2)}
RateLimits == {1, 2}

\* SessionKeyConfig
SessionKeyConfig ==
    [expiry_time : ExpiryTimes, max_uses : MaxUsesChoices,
     rate_limit_per_minute : RateLimits]

VARIABLES
    now,               \* time.time()
    wallet,            \* self.wallet is set
    cleanup_task,      \* self._cleanup_task: "none", "running", "cancelled"
    issued,            \* the number of tokens generated so far
    sessions,          \* keys of self.sessions (the live table)
    objs,              \* the SessionTokenData objects still referenced, by token
    rate_limit_cache,  \* self.rate_limit_cache: token -> timestamps
    using,             \* use_session calls suspended in _send_transaction
    revoking,          \* revoke_session calls suspended in _send_transaction
    succ,              \* history: confirmed authorizations of the last RateWindow
    nsucc,             \* history: confirmed authorizations, counted up to MaxCount
    revoked,           \* history: the tokens whose revoke_session returned
    last,              \* history: the call that has just returned or raised
    session_keypairs   \* the tokens whose session_keypair was generated and
                       \* whose secret bytes have not been zeroed

svars == <<now, wallet, cleanup_task, issued, sessions, objs, rate_limit_cache,
           using, revoking, succ, nsucc, revoked, last, session_keypairs>>

VARIABLES
    jwallet,           \* JitoBundlesService.wallet is set
    http_client,       \* self.http_client: "none", "open", "closed"
    pending_bundles,   \* self.pending_bundles: bundle id -> BundleResult
    bundle_history,    \* self.bundle_history
    bundle_stats,      \* the counters of self.bundle_stats
    call,              \* the send_bundle call in progress
    jlast,             \* history: the send_bundle call that has just ended
    jtrace             \* history: what the latest send_bundle call was given,
                       \* the requests it made and the statuses it was told

jvars == <<jwallet, http_client, pending_bundles, bundle_history, bundle_stats,
           call, jlast, jtrace>>

VARIABLES
    arg,               \* the arguments of the call of a function under study
    result             \* what the latest call that returns data returned

fvars == <<arg, result>>

vars == <<svars, jvars, fvars>>

\* No call, nothing returned.
NoArg == [op |-> "none"]
NoResult == [op |-> "none"]

\* `x or d` of Python on an Optional[int]: None and 0 are falsy.
OrDefault(m, d) == IF m = None THEN d ELSE IF m[1] = 0 THEN d ELSE m[1]

\* What a call returned or raised, and whether it sent a transaction to the
\* ledger; NoEvent once the caller has taken it.
Event(op, t, outcome, submitted) ==
    [op |-> op, token |-> t, outcome |-> outcome, submitted |-> submitted]
NoEvent == Event("none", 0, "none", FALSE)

Min(a, b) == IF a < b THEN a ELSE b

\* f with the entry k |-> v added or replaced.
Put(f, k, v) == [x \in DOMAIN f \cup {k} |-> IF x = k THEN v ELSE f[x]]

\* f without the entries whose key is not in S.
Restrict(f, S) == [x \in DOMAIN f \cap S |-> f[x]]

\* _generate_session_token: sha256 over the keys and 16 fresh random bytes;
\* a token never seen before.
GenerateSessionToken == issued + 1

PruneOld_Inclusive(stamps, current_time) ==
    LET Fresh(ts) == current_time - ts <= RateWindow
    IN  SelectSeq(stamps, Fresh)

\* The list comprehension of _check_rate_limit.
PruneOld(stamps, current_time) ==
    LET Fresh(ts) == current_time - ts < RateWindow
    IN  SelectSeq(stamps, Fresh)

\* A _check_rate_limit that prunes the window of every token.
CheckedCache_PruneAll(t) ==
    [u \in DOMAIN rate_limit_cache \cup {t} |->
        IF u \in DOMAIN rate_limit_cache
        THEN PruneOld(rate_limit_cache[u], now) ELSE <<>>]

\* A _check_rate_limit that records the attempt it checks.
CheckedCache_Stamp(t) ==
    IF t \in DOMAIN rate_limit_cache
    THEN [rate_limit_cache EXCEPT ![t] = Append(PruneOld(@, now), now)]
    ELSE Put(rate_limit_cache, t, <<now>>)

\* self.rate_limit_cache after the pruning of _check_rate_limit(t).
CheckedCache(t) ==
    IF t \in DOMAIN rate_limit_cache
    THEN [rate_limit_cache EXCEPT ![t] = PruneOld(@, now)]
    ELSE Put(rate_limit_cache, t, <<>>)

RateLimited_OffByOne(t, cache) ==
    Len(cache[t]) > objs[t].config.rate_limit_per_minute

\* A _check_rate_limit without its test.
RateLimited_Never(t, cache) == FALSE

\* _check_rate_limit raises.
RateLimited(t, cache) == Len(cache[t]) >= objs[t].config.rate_limit_per_minute

\* An _update_rate_limit_cache that records the use twice.
UpdatedCache_Twice(t) ==
    IF t \in DOMAIN rate_limit_cache
    THEN [rate_limit_cache EXCEPT ![t] = Append(Append(@, now), now)]
    ELSE Put(rate_limit_cache, t, <<now, now>>)

\* self.rate_limit_cache after _update_rate_limit_cache(t).
UpdatedCache(t) ==
    IF t \in DOMAIN rate_limit_cache
    THEN [rate_limit_cache EXCEPT ![t] = Append(@, now)]
    ELSE Put(rate_limit_cache, t, <<now>>)

ValidateOutcome_NoExpiry(t) ==
    IF t \notin sessions THEN "NotFound"
    ELSE IF ~objs[t].is_active THEN "Inactive"
    ELSE IF objs[t].uses_remaining = 0 THEN "Exhausted"
    ELSE "ok"

\* The outcome of _validate_session(t).
ValidateOutcome(t) ==
    IF t \notin sessions THEN "NotFound"
    ELSE IF ~objs[t].is_active THEN "Inactive"
    ELSE IF now > objs[t].config.expiry_time THEN "Expired"
    ELSE IF objs[t].uses_remaining = 0 THEN "Exhausted"
    ELSE "ok"

\* The objects after _validate_session(t): expiry and exhaustion mark the
\* credential inactive before raising.
ValidatedObjs(t) ==
    IF ValidateOutcome(t) \in {"Expired", "Exhausted"}
    THEN [objs EXCEPT ![t].is_active = FALSE]
    ELSE objs

UsedObj_NoDeactivate(o) ==
    IF o.uses_remaining > 0 THEN [o EXCEPT !.uses_remaining = @ - 1] ELSE o

UsedObj_Reactivate(o) ==
    IF o.uses_remaining > 0
    THEN [o EXCEPT !.uses_remaining = @ - 1, !.is_active = (o.uses_remaining - 1 # 0)]
    ELSE [o EXCEPT !.is_active = TRUE]

\* A usage update that decrements without testing the count.
UsedObj_Unguarded(o) ==
    [o EXCEPT !.uses_remaining = @ - 1,
              !.is_active = IF o.uses_remaining - 1 = 0 THEN FALSE ELSE @]

\* The usage update of use_session on a confirmed submission.
UsedObj(o) ==
    IF o.uses_remaining > 0
    THEN [o EXCEPT !.uses_remaining = @ - 1,
                   !.is_active = IF o.uses_remaining - 1 = 0 THEN FALSE ELSE @]
    ELSE o

UseResultObj_Early(o, outcome) == UsedObj(o)

\* The object when use_session ends: the usage update comes after
\* _send_transaction, which raises past it unless the outcome is Confirmed.
UseResultObj(o, outcome) == IF outcome = "Confirmed" THEN UsedObj(o) ELSE o

RevokedSessions_Keep(t) == sessions

\* `del self.sessions[session_token]` of revoke_session.
RevokedSessions(t) == sessions \ {t}

\* The SessionTokenData stored by create_session.
NewSession(config) ==
    [config |-> config,
     uses_remaining |-> OrDefault(config.max_uses, Unlimited),
     is_active |-> TRUE]

\* A SessionTokenData object lives as long as the live table or a suspended
\* call refers to it.
Referenced(live, u, r) == {t \in Tokens : t \in live \/ u[t] > 0 \/ r[t] > 0}

\* The suspended calls, over all tokens.
RECURSIVE Sum(_, _)
Sum(f, S) == IF S = {} THEN 0
             ELSE LET x == CHOOSE y \in S : TRUE IN f[x] + Sum(f, S \ {x})
InFlight == Sum(using, Tokens) + Sum(revoking, Tokens)

\* The outcomes of _send_transaction: it raises before the transaction is
\* sent, it raises in confirm_transaction, or it returns the signature.
SendOutcomes == {"NotSent", "Unconfirmed", "Confirmed"}

SInit ==
    /\ now = 0
    /\ wallet = FALSE
    /\ cleanup_task = "none"
    /\ issued = 0
    /\ sessions = {}
    /\ objs = <<>>
    /\ rate_limit_cache = <<>>
    /\ using = [t \in Tokens |-> 0]
    /\ revoking = [t \in Tokens |-> 0]
    /\ succ = <<>>
    /\ nsucc = <<>>
    /\ revoked = {}
    /\ last = NoEvent
    /\ session_keypairs = {}

\* time passes
Tick ==
    /\ last = NoEvent
    /\ UNCHANGED <<jvars, fvars, session_keypairs>>
    /\ now + TickStep <= MaxTime
    /\ now' = now + TickStep
    /\ succ' = [t \in DOMAIN succ |-> PruneOld(succ[t], now + TickStep)]
    /\ UNCHANGED <<wallet, cleanup_task, issued, sessions, objs,
                   rate_limit_cache, using, revoking, nsucc, revoked, last>>

\* set_wallet: the first call starts the sweep task.
SetWallet ==
    /\ last = NoEvent
    /\ UNCHANGED <<jvars, fvars, session_keypairs>>
    /\ wallet' = TRUE
    /\ cleanup_task' = IF cleanup_task = "none" THEN "running" ELSE cleanup_task
    /\ UNCHANGED <<now, issued, sessions, objs, rate_limit_cache, using,
                   revoking, succ, nsucc, revoked, last>>

\* create_session(config, wallet=given): the whole call; nothing it reads
\* before its suspension in _send_transaction can change during it.
CreateSession(config, given, outcome, creds) ==
    /\ last = NoEvent
    /\ UNCHANGED <<jvars, fvars>>
    /\ issued < creds
    /\ IF ~(given \/ wallet)
       THEN /\ last' = Event("create", 0, "NoWallet", FALSE)
            /\ UNCHANGED <<issued, sessions, objs, succ, nsucc, session_keypairs>>
       ELSE IF outcome # "Confirmed"
       THEN /\ last' = Event("create", 0, "Failed", outcome = "Unconfirmed")
            /\ UNCHANGED <<issued, sessions, objs, succ, nsucc, session_keypairs>>
       ELSE LET token == GenerateSessionToken
            IN  /\ issued' = issued + 1
                /\ session_keypairs' = session_keypairs \cup {token}
                /\ objs' = Put(objs, token, NewSession(config))
                /\ sessions' = sessions \cup {token}
                /\ succ' = Put(succ, token, <<>>)
                /\ nsucc' = Put(nsucc, token, 0)
                /\ last' = Event("create", token, "ok", TRUE)
    /\ UNCHANGED <<now, wallet, cleanup_task, rate_limit_cache, using,
                   revoking, revoked>>

\* use_session up to its suspension in _send_transaction: _validate_session,
\* then _check_rate_limit. At most `limit` calls are suspended on one token
\* and `flying` calls in all.
UseBegin(t, limit, flying) ==
    /\ last = NoEvent
    /\ UNCHANGED <<jvars, fvars, session_keypairs>>
    /\ using[t] < limit
    /\ InFlight < flying
    /\ LET v == ValidateOutcome(t)
       IN  IF v # "ok"
           THEN /\ objs' = ValidatedObjs(t)
                /\ last' = Event("use", t, v, FALSE)
                /\ UNCHANGED <<rate_limit_cache, using>>
           ELSE /\ rate_limit_cache' = CheckedCache(t)
                /\ IF RateLimited(t, CheckedCache(t))
                   THEN /\ last' = Event("use", t, "RateLimit", FALSE)
                        /\ UNCHANGED using
                   ELSE /\ using' = [using EXCEPT ![t] = @ + 1]
                        /\ UNCHANGED last
                /\ UNCHANGED objs
    /\ UNCHANGED <<now, wallet, cleanup_task, issued, sessions, revoking,
                   succ, nsucc, revoked>>

\* use_session from the return of _send_transaction on.
UseEnd(t, outcome) ==
    /\ last = NoEvent
    /\ UNCHANGED <<jvars, fvars, session_keypairs>>
    /\ using[t] > 0
    /\ using' = [using EXCEPT ![t] = @ - 1]
    /\ LET keep == Referenced(sessions, using', revoking)
       IN  IF outcome = "Confirmed"
           THEN /\ objs' = Restrict([objs EXCEPT ![t] = UseResultObj(@, outcome)], keep)
                /\ rate_limit_cache' = UpdatedCache(t)
                /\ succ' = Restrict([succ EXCEPT ![t] = Append(@, now)], keep)
                /\ nsucc' = Restrict([nsucc EXCEPT ![t] = Min(@ + 1, MaxCount)], keep)
                /\ last' = Event("use", t, "ok", TRUE)
           ELSE /\ objs' = Restrict([objs EXCEPT ![t] = UseResultObj(@, outcome)], keep)
                /\ succ' = Restrict(succ, keep)
                /\ nsucc' = Restrict(nsucc, keep)
                /\ last' = Event("use", t, "Failed", outcome = "Unconfirmed")
                /\ UNCHANGED rate_limit_cache
    /\ UNCHANGED <<now, wallet, cleanup_task, issued, sessions, revoking,
                   revoked>>

\* revoke_session(token, wallet=given) up to its suspension.
RevokeBegin(t, given, flying) ==
    /\ last = NoEvent
    /\ UNCHANGED <<jvars, fvars, session_keypairs>>
    /\ InFlight < flying
    /\ IF ~(given \/ wallet)
       THEN /\ last' = Event("revoke", t, "NoWallet", FALSE)
            /\ UNCHANGED revoking
       ELSE IF t \notin sessions
       THEN /\ last' = Event("revoke", t, "NotFound", FALSE)
            /\ UNCHANGED revoking
       ELSE /\ revoking' = [revoking EXCEPT ![t] = @ + 1]
            /\ UNCHANGED last
    /\ UNCHANGED <<now, wallet, cleanup_task, issued, sessions, objs,
                   rate_limit_cache, using, succ, nsucc, revoked>>

\* A revoke_session that removes the credential whatever the submission
\* came to.
RevokeEnd_RemoveFirst(t, outcome) ==
    /\ last = NoEvent
    /\ UNCHANGED <<jvars, fvars, session_keypairs>>
    /\ revoking[t] > 0
    /\ revoking' = [revoking EXCEPT ![t] = @ - 1]
    /\ sessions' = RevokedSessions(t)
    /\ objs' = Restrict([objs EXCEPT ![t].is_active = FALSE],
                        Referenced(sessions', using, revoking'))
    /\ IF outcome = "Confirmed"
       THEN /\ revoked' = IF t \in sessions THEN revoked \cup {t} ELSE revoked
            /\ last' = Event("revoke", t,
                             IF t \in sessions THEN "ok" ELSE "Failed", TRUE)
       ELSE /\ last' = Event("revoke", t, "Failed", outcome = "Unconfirmed")
            /\ UNCHANGED revoked
    /\ succ' = Restrict(succ, DOMAIN objs')
    /\ nsucc' = Restrict(nsucc, DOMAIN objs')
    /\ UNCHANGED <<now, wallet, cleanup_task, issued, rate_limit_cache, using>>

\* revoke_session from the return of _send_transaction on: the object is
\* marked inactive, then `del self.sessions[token]` raises KeyError when
\* the key has gone meanwhile.
RevokeEnd(t, outcome) ==
    /\ last = NoEvent
    /\ UNCHANGED <<jvars, fvars, session_keypairs>>
    /\ revoking[t] > 0
    /\ revoking' = [revoking EXCEPT ![t] = @ - 1]
    /\ IF outcome = "Confirmed"
       THEN /\ sessions' = RevokedSessions(t)
            /\ objs' = Restrict([objs EXCEPT ![t].is_active = FALSE],
                                Referenced(sessions', using, revoking'))
            /\ revoked' = IF t \in sessions THEN revoked \cup {t} ELSE revoked
            /\ last' = Event("revoke", t,
                             IF t \in sessions THEN "ok" ELSE "Failed", TRUE)
       ELSE /\ objs' = Restrict(objs, Referenced(sessions, using, revoking'))
            /\ last' = Event("revoke", t, "Failed", outcome = "Unconfirmed")
            /\ UNCHANGED <<sessions, revoked>>
    /\ succ' = Restrict(succ, DOMAIN objs')
    /\ nsucc' = Restrict(nsucc, DOMAIN objs')
    /\ UNCHANGED <<now, wallet, cleanup_task, issued, rate_limit_cache, using>>

\* A pass that collects the deactivated credentials only.
ExpiredTokens_OnlyInactive ==
    {t \in sessions : ~objs[t].is_active}

\* A pass that also collects the credentials that are at their expiry.
ExpiredTokens_AtExpiry ==
    {t \in sessions : ~objs[t].is_active \/ now >= objs[t].config.expiry_time}

\* The tokens one pass of _auto_cleanup_sessions collects.
ExpiredTokens ==
    {t \in sessions : ~objs[t].is_active \/ now > objs[t].config.expiry_time}

\* One pass of _auto_cleanup_sessions.
Sweep ==
    /\ last = NoEvent
    /\ UNCHANGED <<jvars, fvars, session_keypairs>>
    /\ cleanup_task = "running"
    /\ sessions' = sessions \ ExpiredTokens
    /\ objs' = Restrict(objs, Referenced(sessions', using, revoking))
    /\ rate_limit_cache' = Restrict(rate_limit_cache, sessions')
    /\ succ' = Restrict(succ, DOMAIN objs')
    /\ nsucc' = Restrict(nsucc, DOMAIN objs')
    /\ UNCHANGED <<now, wallet, cleanup_task, issued, using, revoking,
                   revoked, last>>

\* A cleanup() that leaves the sweep task running.
Cleanup_NoCancel ==
    /\ last = NoEvent
    /\ UNCHANGED <<jvars, fvars, session_keypairs>>
    /\ sessions' = {}
    /\ objs' = Restrict(objs, Referenced({}, using, revoking))
    /\ rate_limit_cache' = <<>>
    /\ succ' = Restrict(succ, DOMAIN objs')
    /\ nsucc' = Restrict(nsucc, DOMAIN objs')
    /\ last' = Event("cleanup", 0, "ok", FALSE)
    /\ UNCHANGED <<now, wallet, cleanup_task, issued, using, revoking, revoked>>

\* cleanup(): the sweep task, which is always suspended in its sleep when
\* another coroutine runs, is cancelled there and ends without a pass; then
\* the two tables are cleared. What other coroutines do while cleanup()
\* awaits the end of the task depends on nothing the cancellation changed,
\* so it is taken to come before the call.
Cleanup ==
    /\ last = NoEvent
    /\ UNCHANGED <<jvars, fvars, session_keypairs>>
    /\ cleanup_task' = IF cleanup_task = "none" THEN "none" ELSE "cancelled"
    /\ sessions' = {}
    /\ objs' = Restrict(objs, Referenced({}, using, revoking))
    /\ rate_limit_cache' = <<>>
    /\ succ' = Restrict(succ, DOMAIN objs')
    /\ nsucc' = Restrict(nsucc, DOMAIN objs')
    /\ last' = Event("cleanup", 0, "ok", FALSE)
    /\ UNCHANGED <<now, wallet, issued, using, revoking, revoked>>

\* The tokens list_active_sessions makes an entry for.
ActiveSessions ==
    {t \in sessions : objs[t].is_active /\ now < objs[t].config.expiry_time}

\* list_active_sessions()
ListActiveSessions ==
    /\ last = NoEvent
    /\ UNCHANGED <<jvars, arg, session_keypairs>>
    /\ last' = Event("list", 0, "ok", FALSE)
    /\ result' = [op |-> "list", tokens |-> ActiveSessions]
    /\ UNCHANGED <<now, wallet, cleanup_task, issued, sessions, objs,
                   rate_limit_cache, using, revoking, succ, nsucc, revoked>>

\* The fields of the dictionary get_session_info returns that vary with the
\* state of the credential.
SessionInfo(t) ==
    [uses_remaining |-> objs[t].uses_remaining,
     is_active |-> objs[t].is_active,
     is_expired |-> now > objs[t].config.expiry_time]

\* A get_session_info that detects expiry as _validate_session does.
GetSessionInfo_MarkExpired(t) ==
    /\ last = NoEvent
    /\ UNCHANGED <<jvars, arg, session_keypairs>>
    /\ IF t \notin sessions
       THEN /\ last' = Event("describe", t, "NotFound", FALSE)
            /\ UNCHANGED <<result, objs>>
       ELSE /\ last' = Event("describe", t, "ok", FALSE)
            /\ result' = [op |-> "describe", value |-> SessionInfo(t)]
            /\ objs' = [objs EXCEPT ![t].is_active =
                                       @ /\ ~(now > objs[t].config.expiry_time)]
    /\ UNCHANGED <<now, wallet, cleanup_task, issued, sessions,
                   rate_limit_cache, using, revoking, succ, nsucc, revoked>>

\* get_session_info(session_token)
GetSessionInfo(t) ==
    /\ last = NoEvent
    /\ UNCHANGED <<jvars, arg, session_keypairs>>
    /\ IF t \notin sessions
       THEN /\ last' = Event("describe", t, "NotFound", FALSE)
            /\ UNCHANGED result
       ELSE /\ last' = Event("describe", t, "ok", FALSE)
            /\ result' = [op |-> "describe", value |-> SessionInfo(t)]
    /\ UNCHANGED <<now, wallet, cleanup_task, issued, sessions, objs,
                   rate_limit_cache, using, revoking, succ, nsucc, revoked>>

\* The caller takes the result of the call that has just ended.
Return ==
    /\ last # NoEvent
    /\ UNCHANGED <<jvars, arg, session_keypairs>>
    /\ last' = NoEvent
    /\ result' = NoResult
    /\ UNCHANGED <<now, wallet, cleanup_task, issued, sessions, objs,
                   rate_limit_cache, using, revoking, succ, nsucc, revoked>>

\* The session manager with at most `creds` credentials issued, `flying`
\* calls suspended at once, `limit` of them use_session calls on one token.
SNext(configs, creds, flying, limit) ==
    \/ Tick
    \/ SetWallet
    \/ \E c \in configs, g \in BOOLEAN, o \in SendOutcomes :
          CreateSession(c, g, o, creds)
    \/ \E t \in Tokens : UseBegin(t, limit, flying)
    \/ \E t \in Tokens, o \in SendOutcomes : UseEnd(t, o)
    \/ \E t \in Tokens, g \in BOOLEAN : RevokeBegin(t, g, flying)
    \/ \E t \in Tokens, o \in SendOutcomes : RevokeEnd(t, o)
    \/ Sweep
    \/ Cleanup
    \/ ListActiveSessions
    \/ \E t \in Tokens : GetSessionInfo(t)
    \/ Return

\* -------------------------------------------------- the bundle client

\* The id _submit_bundle_to_jito makes up from the clock when the relay's
\* response carries no `result`.
FallbackId == 0
BundleIds == 0..MaxBundleIds

\* BundleResult as send_bundle creates it.
NewBundle(b) == [bundle_id |-> b, status |-> "pending", confirmation_time |-> None]

NoCall == [pc |-> "idle", bundle_id |-> 0, attempt |-> 0, max_retries |-> 0]

\* How a send_bundle call ended: the bundle id, the result, whether
\* _wait_for_bundle_confirmation ran, and the status queries it sent.
BundleEvent(b, outcome, waited, polls) ==
    [bundle_id |-> b, outcome |-> outcome, waited |-> waited, polls |-> polls]
NoBundleEvent == BundleEvent(0, "none", FALSE, 0)

\* A send_bundle call of ntx transactions before its first request: the
\* blockhash fetches, the posts to the relay, the statuses the polls
\* returned, the answer to the latest request.
NewTrace(ntx) ==
    [ntx |-> ntx, fetches |-> 0, posts |-> 0, seen |-> {}, reply |-> "none"]

\* The answers to the sendBundle request: get_latest_blockhash raises, the
\* post raises, a non-200 status, an `error` field, a 200 response without
\* `result`, a 200 response with the id the relay assigned.
SubmitReplies == {"NoBlockhash", "Raise", "Non200", "Error", "NoResult", "Assigned"}

\* The answers to the getBundleStatuses request: the post raises, a non-200
\* status, a 200 response with an `error` field and no `result`, a 200
\* response with an empty `result`, the status of the bundle.
StatusReplies ==
    {"Raise", "Non200", "Error", "Empty", "pending", "confirmed", "failed"}

\* A closed httpx client raises on post.
Posted(reply) ==
    IF http_client = "closed" /\ reply # "NoBlockhash" THEN "Raise" ELSE reply

\* _submit_bundle_to_jito: the id it returns, None when it raises.
SubmittedId(reply, id) ==
    IF reply = "Assigned" THEN Some(id)
    ELSE IF reply = "NoResult" THEN Some(FallbackId)
    ELSE None

\* _query_bundle_status_from_jito: the status it returns, "Raise" when it
\* raises.
QueryStatus(reply) ==
    IF reply \in {"Non200", "Error", "Empty"} THEN "pending" ELSE reply

\* The seconds slept up to and including attempt a (counted from 0).
Elapsed(a) == RetryDelay * (((a + 1) * (a + 2)) \div 2)

\* f without the entry k.
Drop(f, k) == Restrict(f, DOMAIN f \ {k})

WaitTurn_MarkFailed(b, status, a, final) ==
    LET known == b \in DOMAIN pending_bundles
        gone == status \in {"confirmed", "failed"} /\ known
        pend == IF gone THEN Drop(pending_bundles, b) ELSE pending_bundles
        marked == IF b \in DOMAIN pend
                  THEN [pend EXCEPT ![b].status = "failed"] ELSE pend
    IN  IF status = "confirmed" /\ known
        THEN [pending |-> pend,
              history |-> Append(bundle_history,
                                 [pending_bundles[b] EXCEPT
                                     !.status = "confirmed",
                                     !.confirmation_time = Some(Elapsed(a))]),
              end |-> "Confirmed"]
        ELSE IF ~final
        THEN [pending |-> pend, history |-> bundle_history, end |-> "Continue"]
        ELSE [pending |-> marked, history |-> bundle_history,
              end |-> IF status = "pending" THEN "Timeout" ELSE "LastAttemptFailed"]

\* A loop that surfaces a failing status query on the attempt it happens.
WaitTurn_Surface(b, status, a, final) ==
    LET known == b \in DOMAIN pending_bundles
        raised == status = "Raise" \/ (status \in {"confirmed", "failed"} /\ ~known)
        pend == IF status \in {"confirmed", "failed"} /\ known
                THEN Drop(pending_bundles, b) ELSE pending_bundles
        hist == IF status = "confirmed" /\ known
                THEN Append(bundle_history,
                            [pending_bundles[b] EXCEPT
                                !.status = "confirmed",
                                !.confirmation_time = Some(Elapsed(a))])
                ELSE bundle_history
    IN  IF status = "confirmed" /\ known
        THEN [pending |-> pend, history |-> hist, end |-> "Confirmed"]
        ELSE IF raised \/ status = "failed"
        THEN [pending |-> IF b \in DOMAIN pend
                          THEN [pend EXCEPT ![b].status = "failed"] ELSE pend,
              history |-> hist, end |-> "LastAttemptFailed"]
        ELSE IF final
        THEN [pending |-> IF b \in DOMAIN pend
                          THEN [pend EXCEPT ![b].status = "timeout"] ELSE pend,
              history |-> hist, end |-> "Timeout"]
        ELSE [pending |-> pend, history |-> hist, end |-> "Continue"]

\* One turn of the loop of _wait_for_bundle_confirmation on bundle b, from
\* the answer to its status query to the next sleep or to the end of the
\* call: the tables, and how the call goes on.
WaitTurn(b, status, a, final) ==
    LET known == b \in DOMAIN pending_bundles
        raised == status = "Raise" \/ (status \in {"confirmed", "failed"} /\ ~known)
        pend == IF status \in {"confirmed", "failed"} /\ known
                THEN Drop(pending_bundles, b) ELSE pending_bundles
        hist == IF status = "confirmed" /\ known
                THEN Append(bundle_history,
                            [pending_bundles[b] EXCEPT
                                !.status = "confirmed",
                                !.confirmation_time = Some(Elapsed(a))])
                ELSE bundle_history
    IN  IF status = "confirmed" /\ known
        THEN [pending |-> pend, history |-> hist, end |-> "Confirmed"]
        ELSE IF raised \/ status = "failed"
        THEN IF final
             THEN [pending |-> IF b \in DOMAIN pend
                               THEN [pend EXCEPT ![b].status = "failed"] ELSE pend,
                   history |-> hist, end |-> "LastAttemptFailed"]
             ELSE [pending |-> pend, history |-> hist, end |-> "Continue"]
        ELSE IF final
        THEN [pending |-> IF b \in DOMAIN pend
                          THEN [pend EXCEPT ![b].status = "timeout"] ELSE pend,
              history |-> hist, end |-> "Timeout"]
        ELSE [pending |-> pend, history |-> hist, end |-> "Continue"]

\* _update_bundle_stats on the confirmed result.
UpdatedStats ==
    [bundle_stats EXCEPT !.total_bundles = @ + 1, !.successful_bundles = @ + 1]

\* The handler of send_bundle: `except Exception`.
FailedStats == [bundle_stats EXCEPT !.failed_bundles = @ + 1]

JInit ==
    /\ jwallet = FALSE
    /\ http_client = "none"
    /\ pending_bundles = <<>>
    /\ bundle_history = <<>>
    /\ bundle_stats = [total_bundles |-> 0, successful_bundles |-> 0,
                       failed_bundles |-> 0]
    /\ call = NoCall
    /\ jlast = NoBundleEvent
    /\ jtrace = NewTrace(0)

\* JitoBundlesService.set_wallet
SetBundleWallet ==
    /\ jlast = NoBundleEvent
    /\ UNCHANGED <<svars, fvars>>
    /\ jwallet' = TRUE
    /\ UNCHANGED <<http_client, pending_bundles, bundle_history, bundle_stats,
                   call, jlast, jtrace>>

SendBundle_NoSizeCheck(ntx, retries) ==
    /\ jlast = NoBundleEvent
    /\ UNCHANGED <<svars, fvars>>
    /\ call.pc = "idle"
    /\ bundle_stats.successful_bundles + bundle_stats.failed_bundles < MaxBundleCalls
    /\ IF ~jwallet
       THEN /\ bundle_stats' = FailedStats
            /\ jlast' = BundleEvent(0, "NoWallet", FALSE, 0)
            /\ UNCHANGED <<http_client, call>>
       ELSE /\ http_client' = IF http_client = "none" THEN "open" ELSE http_client
            /\ call' = [NoCall EXCEPT !.pc = "submitting", !.max_retries = retries]
            /\ UNCHANGED <<bundle_stats, jlast>>
    /\ jtrace' = NewTrace(ntx)
    /\ UNCHANGED <<jwallet, pending_bundles, bundle_history>>

\* send_bundle(transactions, max_retries=retries), ntx transactions, up to
\* its first suspension, in get_latest_blockhash.
SendBundle(ntx, retries) ==
    /\ jlast = NoBundleEvent
    /\ UNCHANGED <<svars, fvars>>
    /\ call.pc = "idle"
    /\ bundle_stats.successful_bundles + bundle_stats.failed_bundles < MaxBundleCalls
    /\ IF ~jwallet \/ ntx > MaxBundleSize
       THEN /\ bundle_stats' = FailedStats
            /\ jlast' = BundleEvent(0, IF ~jwallet THEN "NoWallet" ELSE "TooLarge",
                                    FALSE, 0)
            /\ UNCHANGED <<http_client, call>>
       ELSE /\ http_client' = IF http_client = "none" THEN "open" ELSE http_client
            /\ call' = [NoCall EXCEPT !.pc = "submitting", !.max_retries = retries]
            /\ UNCHANGED <<bundle_stats, jlast>>
    /\ jtrace' = NewTrace(ntx)
    /\ UNCHANGED <<jwallet, pending_bundles, bundle_history>>

\* send_bundle from the answer to the sendBundle request to the first sleep
\* of _wait_for_bundle_confirmation; with max_retries = 0 the loop has no
\* turn and the call ends here.
SubmitBundle(reply, id) ==
    /\ jlast = NoBundleEvent
    /\ UNCHANGED <<svars, fvars>>
    /\ call.pc = "submitting"
    /\ LET got == SubmittedId(Posted(reply), id)
       IN  IF got = None
           THEN /\ bundle_stats' = FailedStats
                /\ jlast' = BundleEvent(0, "SubmitFailed", FALSE, 0)
                /\ call' = NoCall
                /\ UNCHANGED pending_bundles
           ELSE IF call.max_retries = 0
           THEN /\ pending_bundles' =
                      Put(pending_bundles, got[1],
                          [NewBundle(got[1]) EXCEPT !.status = "timeout"])
                /\ bundle_stats' = FailedStats
                /\ jlast' = BundleEvent(got[1], "Timeout", TRUE, 0)
                /\ call' = NoCall
           ELSE /\ pending_bundles' = Put(pending_bundles, got[1], NewBundle(got[1]))
                /\ call' = [call EXCEPT !.pc = "polling", !.bundle_id = got[1]]
                /\ UNCHANGED <<bundle_stats, jlast>>
    /\ jtrace' = [jtrace EXCEPT !.fetches = 1,
                                !.posts = IF reply = "NoBlockhash" THEN 0 ELSE 1,
                                !.reply = Posted(reply)]
    /\ UNCHANGED <<jwallet, http_client, bundle_history>>

\* One turn of the loop of _wait_for_bundle_confirmation: the sleep, the
\* status query and what follows its answer, to the next sleep or through
\* the end of send_bundle.
PollBundle(reply) ==
    /\ jlast = NoBundleEvent
    /\ UNCHANGED <<svars, fvars>>
    /\ call.pc = "polling"
    /\ LET b == call.bundle_id
           a == call.attempt
           turn == WaitTurn(b, QueryStatus(Posted(reply)), a,
                            a = call.max_retries - 1)
       IN  /\ pending_bundles' = turn.pending
           /\ bundle_history' = turn.history
           /\ IF turn.end = "Continue"
              THEN /\ call' = [call EXCEPT !.attempt = a + 1]
                   /\ UNCHANGED <<bundle_stats, jlast>>
              ELSE /\ call' = NoCall
                   /\ bundle_stats' = IF turn.end = "Confirmed"
                                      THEN UpdatedStats ELSE FailedStats
                   /\ jlast' = BundleEvent(b, turn.end, TRUE, a + 1)
    /\ jtrace' = [jtrace EXCEPT !.posts = @ + 1,
                                !.seen = @ \cup {QueryStatus(Posted(reply))},
                                !.reply = Posted(reply)]
    /\ UNCHANGED <<jwallet, http_client>>

\* JitoBundlesService.cleanup
BundleCleanup ==
    /\ jlast = NoBundleEvent
    /\ UNCHANGED <<svars, fvars>>
    /\ http_client' = IF http_client = "open" THEN "closed" ELSE http_client
    /\ pending_bundles' = <<>>
    /\ bundle_history' = <<>>
    /\ UNCHANGED <<jwallet, bundle_stats, call, jlast, jtrace>>

\* The caller takes the result of the send_bundle call that has just ended.
BundleReturn ==
    /\ jlast # NoBundleEvent
    /\ UNCHANGED <<svars, fvars>>
    /\ jlast' = NoBundleEvent
    /\ UNCHANGED <<jwallet, http_client, pending_bundles, bundle_history,
                   bundle_stats, call, jtrace>>

JNext ==
    \/ SetBundleWallet
    \/ \E n \in 0..MaxTxs, r \in 0..MaxRetries : SendBundle(n, r)
    \/ \E reply \in SubmitReplies, id \in 1..MaxBundleIds : SubmitBundle(reply, id)
    \/ \E reply \in StatusReplies : PollBundle(reply)
    \/ BundleCleanup
    \/ BundleReturn

\* ------------------------------------------------ the bundle builder

\* The instructions of the caller, told apart by a number.
Instructions == 1..NumInstructions

\* The sequences over S of length at most n.
SeqsUpTo(S, n) == UNION {[1..k -> S] : k \in 0..n}

RECURSIVE GroupFrom_DropTail(_, _, _)
GroupFrom_DropTail(instructions, i, k) ==
    IF i + k - 1 > Len(instructions) THEN <<>>
    ELSE <<SubSeq(instructions, i, i + k - 1)>>
         \o GroupFrom_DropTail(instructions, i + k, k)

\* The loop of _group_instructions_optimally from index i on (counted from
\* 1): the slice instructions[i:i + k] of Python stops at the end of the list.
RECURSIVE GroupFrom(_, _, _)
GroupFrom(instructions, i, k) ==
    IF i > Len(instructions) THEN <<>>
    ELSE <<SubSeq(instructions, i, Min(i + k - 1, Len(instructions)))>>
         \o GroupFrom(instructions, i + k, k)

\* _group_instructions_optimally
GroupInstructionsOptimally ==
    /\ arg.op = "group"
    /\ result = NoResult
    /\ result' = [op |-> "group",
                  groups |-> GroupFrom(arg.instructions, 1, MaxInstructionsPerTx)]
    /\ UNCHANGED <<svars, jvars, arg>>

GroupInit ==
    /\ SInit /\ JInit
    /\ arg \in {[op |-> "group", instructions |-> i] :
                    i \in SeqsUpTo(Instructions, MaxGroupLen)}
    /\ result = NoResult

\* _group_instructions_optimally on every instruction list.
SpecGroup == GroupInit /\ [][GroupInstructionsOptimally]_vars

\* An instruction: one of the caller's, or one that prepare attaches.
Instr(kind, value) == [kind |-> kind, value |-> value]

\* The BundleTransaction values: the transaction's own instructions and
\* priority_fee.
BundleTransactions ==
    [instructions : SeqsUpTo({Instr("own", n) : n \in Instructions}, MaxTxLen),
     priority_fee : {None, Some(7)}]

\* tip_lamports: the defaults of send_bundle and of send_channel_bundle.
TipChoices == {10000, 15000}

\* The instructions of one transaction after the loop body of
\* _prepare_bundle_transactions: `compute_instructions + tx.instructions`.
PreparedTx(bundle_tx, is_last, tip_lamports) ==
    <<Instr("limit", ComputeUnitLimit),
      Instr("price", OrDefault(bundle_tx.priority_fee, DefaultPriorityFee))>>
    \o (IF is_last THEN <<Instr("tip", tip_lamports)>> ELSE <<>>)
    \o bundle_tx.instructions

\* _prepare_bundle_transactions, once the blockhash is there.
PreparedTxs(transactions, tip_lamports) ==
    [i \in 1..Len(transactions) |->
        PreparedTx(transactions[i], i = Len(transactions), tip_lamports)]

\* _prepare_bundle_transactions of the packaged copy of the SDK: it sets the
\* blockhash and the fee payer and leaves the instructions as they are.
PackagedPreparedTxs(transactions, tip_lamports) ==
    [i \in 1..Len(transactions) |-> transactions[i].instructions]

PrepareBundleTransactions ==
    /\ arg.op = "prepare"
    /\ result = NoResult
    /\ result' = [op |-> "prepare",
                  prepared |-> PreparedTxs(arg.transactions, arg.tip_lamports)]
    /\ UNCHANGED <<svars, jvars, arg>>

PackagedPrepareBundleTransactions ==
    /\ arg.op = "prepare"
    /\ result = NoResult
    /\ result' = [op |-> "packaged_prepare",
                  prepared |-> PackagedPreparedTxs(arg.transactions, arg.tip_lamports)]
    /\ UNCHANGED <<svars, jvars, arg>>

PrepareInit ==
    /\ SInit /\ JInit
    /\ arg \in {[op |-> "prepare", transactions |-> t, tip_lamports |-> tip] :
                    t \in SeqsUpTo(BundleTransactions, MaxPrepTxs),
                    tip \in TipChoices}
    /\ result = NoResult

\* _prepare_bundle_transactions, of the SDK and of its packaged copy, on
\* every list of transactions.
SpecPrepare ==
    PrepareInit
    /\ [][PrepareBundleTransactions \/ PackagedPrepareBundleTransactions]_vars

\* ------------------------------------------------------ fee estimation

\* priority_level: the three levels and two strings that are none of them.
PriorityLevels == {"low", "medium", "high", "urgent", ""}

\* What connection.get_recent_prioritization_fees does: it raises, or it
\* returns these prioritization fees.
FeeReplies ==
    [raises : {TRUE}, fees : {<<>>}]
    \cup [raises : {FALSE},
          fees : {<<>>, <<0>>, <<1000>>, <<1000, 2001>>, <<1, 1, 2>>, <<6000>>}]

\* The sum of a sequence of numbers.
RECURSIVE SumSeq(_)
SumSeq(q) == IF q = <<>> THEN 0 ELSE Head(q) + SumSeq(Tail(q))

Max(a, b) == IF a > b THEN a ELSE b

Caught_Propagate(try, fallback) == try

\* `try: ... except Exception: ...` around a block that raised or gave a
\* value.
Caught(try, fallback) == IF try.raised THEN fallback ELSE try

\* An average kept as sum and count: int(average * m) is (sum * m) \div count.
Average(sum, count) == [raised |-> FALSE, sum |-> sum, count |-> count]
Raised == [raised |-> TRUE]

\* _get_recent_prioritization_fees: the average of the fees the network
\* returned, the fixed default when it returned none or raised.
RecentPrioritizationFees(reply) ==
    Caught(IF reply.raises THEN Raised
           ELSE IF reply.fees = <<>> THEN Average(DefaultAverageFee, 1)
           ELSE Average(SumSeq(reply.fees), Len(reply.fees)),
           Average(DefaultAverageFee, 1))

Multiplier_DefaultLow(priority_level) ==
    CASE priority_level = "medium" -> 2
      [] priority_level = "high" -> 5
      [] OTHER -> 1

\* priority_multipliers.get(priority_level, 2.0)
Multiplier(priority_level) ==
    CASE priority_level = "low" -> 1
      [] priority_level = "medium" -> 2
      [] priority_level = "high" -> 5
      [] OTHER -> 2

\* The estimate estimate_bundle_fee returns.
Estimate(count, level, base, priority, tip, total, error) ==
    [raised |-> FALSE, transaction_count |-> count, priority_level |-> level,
     base_fee |-> base, priority_fee |-> priority, recommended_tip |-> tip,
     total_estimated |-> total, error |-> error]

\* The try block of estimate_bundle_fee; `fault` is an exception raised
\* inside it (the block itself raises none on an int and a str).
EstimateTry(count, level, reply, fault) ==
    IF fault THEN Raised
    ELSE LET recent_fees == RecentPrioritizationFees(reply)
             base_total == BaseFeePerTx * count
             priority_fee ==
                 IF recent_fees.raised THEN 0
                 ELSE (recent_fees.sum * Multiplier(level)) \div recent_fees.count
             tip_amount == Max(MinTip, priority_fee * 2)
         IN  IF recent_fees.raised THEN Raised
             ELSE Estimate(count, level, base_total, priority_fee, tip_amount,
                           base_total + priority_fee + tip_amount, FALSE)

\* estimate_bundle_fee(transaction_count, priority_level)
EstimateFee(count, level, reply, fault) ==
    Caught(EstimateTry(count, level, reply, fault),
           Estimate(count, level, BaseFeePerTx * count, FallbackPriorityFee,
                    FallbackTip, FallbackTotalPerTx * count, TRUE))

EstimateBundleFee ==
    /\ arg.op = "estimate"
    /\ result = NoResult
    /\ result' = [op |-> "estimate",
                  value |-> EstimateFee(arg.transaction_count, arg.priority_level,
                                        arg.reply, arg.fault)]
    /\ UNCHANGED <<svars, jvars, arg>>

EstimateInit ==
    /\ SInit /\ JInit
    /\ arg \in [op : {"estimate"}, transaction_count : 0..MaxEstimateCount,
                priority_level : PriorityLevels, reply : FeeReplies,
                fault : BOOLEAN]
    /\ result = NoResult

\* estimate_bundle_fee on every count, level, network answer and fault.
SpecEstimate == EstimateInit /\ [][EstimateBundleFee]_vars

\* ------------------------------------------------ the client's shutdown

\* The services PodComClient.cleanup goes through, in the order of its list.
Services == 1..NumServices

\* What can raise during one shutdown: the release of the client's secure
\* memory, the cleanup of some services, the closing of the connection.
ShutdownFaults ==
    [memory : BOOLEAN, services : SUBSET Services, close : BOOLEAN]

\* The services whose cleanup the loop calls from the i-th on: the loop has
\* no handler, so the first cleanup that raises ends it.
RECURSIVE CalledFrom(_, _)
CalledFrom(i, raising) ==
    IF i > NumServices THEN {}
    ELSE IF i \in raising THEN {i}
    ELSE {i} \cup CalledFrom(i + 1, raising)

\* PodComClient.cleanup(): the services whose cleanup was called, whether
\* the connection was closed, and whether the call raised.
ClientCleanupOutcome(f) ==
    IF f.memory
    THEN [called |-> {}, closed |-> FALSE, raised |-> TRUE]
    ELSE LET called == CalledFrom(1, f.services)
         IN  IF called \cap f.services # {}
             THEN [called |-> called, closed |-> FALSE, raised |-> TRUE]
             ELSE [called |-> called, closed |-> ~f.close, raised |-> f.close]

ClientCleanup ==
    /\ arg.op = "shutdown"
    /\ result = NoResult
    /\ result' = [op |-> "shutdown", value |-> ClientCleanupOutcome(arg.faults)]
    /\ UNCHANGED <<svars, jvars, arg>>

ShutdownInit ==
    /\ SInit /\ JInit
    /\ arg \in [op : {"shutdown"}, faults : ShutdownFaults]
    /\ result = NoResult

\* The client's cleanup() under every combination of failing releases.
SpecShutdown == ShutdownInit /\ [][ClientCleanup]_vars

\* The largest batch of the send_batch runs.
MaxBatchLen == 12

\* max_messages_per_group of _group_messages_optimally.
MaxMessagesPerGroup == 5

\* The loop of _group_messages_optimally from index i on (counted from 1):
\* the slice messages[i:i + max_messages_per_group] stops at the end of the
\* list.
RECURSIVE MessageGroupsFrom(_, _)
MessageGroupsFrom(messages, i) ==
    IF i > Len(messages) THEN <<>>
    ELSE <<SubSeq(messages, i,
                  Min(i + MaxMessagesPerGroup - 1, Len(messages)))>>
         \o MessageGroupsFrom(messages, i + MaxMessagesPerGroup)

\* _group_messages_optimally
GroupMessagesOptimally(messages) == MessageGroupsFrom(messages, 1)

\* The MessageBatch values and the progress_callback argument of send_batch;
\* a message is told apart by its place in the batch.
Batches ==
    [op : {"batch"},
     messages : {[i \in 1..n |-> i] : n \in 0..MaxBatchLen},
     optimize_transactions : BOOLEAN,
     progress_callback : BOOLEAN]

\* The lists the loops of send_batch run over: the groups when
\* optimize_transactions is set, else batch.messages as it is.
BatchLoops(batch) ==
    IF batch.optimize_transactions THEN GroupMessagesOptimally(batch.messages)
    ELSE IF batch.messages = <<>> THEN <<>> ELSE <<batch.messages>>

\* `current` of the progress update after the message at msg_idx of the
\* group at group_idx (both counted from 0) was sent.
Current(batch, message_group, group_idx, msg_idx) ==
    IF batch.optimize_transactions
    THEN group_idx * Len(message_group) + msg_idx + 1
    ELSE msg_idx + 1

\* send_batch up to its first `await self.send`: nothing is sent for an
\* empty batch, and the empty list is returned.
SendBatchBegin ==
    /\ arg.op = "batch"
    /\ result = NoResult
    /\ result' = [op |-> "batch",
                  pc |-> IF BatchLoops(arg) = <<>> THEN "returned" ELSE "sending",
                  groups |-> BatchLoops(arg),
                  group_idx |-> 0,
                  msg_idx |-> 0,
                  signatures |-> <<>>,
                  progress |-> <<>>]
    /\ UNCHANGED <<svars, jvars, arg>>

\* One turn of the inner loop of send_batch: the send of one message, which
\* returns its signature or raises, and the progress update.
SendBatchMessage(outcome) ==
    /\ arg.op = "batch"
    /\ result.op = "batch"
    /\ result.pc = "sending"
    /\ LET message_group == result.groups[result.group_idx + 1]
           last_of_group == result.msg_idx + 1 = Len(message_group)
           last_group == result.group_idx + 1 = Len(result.groups)
           current == Current(arg, message_group, result.group_idx,
                              result.msg_idx)
       IN  result' =
             IF outcome = "raise"
             THEN [result EXCEPT !.pc = "raised"]
             ELSE [result EXCEPT
                     !.signatures = Append(@, message_group[result.msg_idx + 1]),
                     !.progress = IF arg.progress_callback
                                  THEN Append(@, <<current, Len(arg.messages)>>)
                                  ELSE @,
                     !.msg_idx = IF last_of_group THEN 0 ELSE @ + 1,
                     !.group_idx = IF last_of_group THEN @ + 1 ELSE @,
                     !.pc = IF last_of_group /\ last_group
                            THEN "confirming" ELSE "sending"]
    /\ UNCHANGED <<svars, jvars, arg>>

\* The gather of the confirmations and the return of the signatures.
ConfirmBatch(outcome) ==
    /\ arg.op = "batch"
    /\ result.op = "batch"
    /\ result.pc = "confirming"
    /\ result' = [result EXCEPT
                    !.pc = IF outcome = "raise" THEN "raised" ELSE "returned"]
    /\ UNCHANGED <<svars, jvars, arg>>

BatchInit ==
    /\ SInit /\ JInit
    /\ arg \in Batches
    /\ result = NoResult

BatchNext ==
    \/ SendBatchBegin
    \/ \E outcome \in {"ok", "raise"} : SendBatchMessage(outcome)
    \/ \E outcome \in {"ok", "raise"} : ConfirmBatch(outcome)

\* send_batch on every batch of up to MaxBatchLen messages.
SpecBatch == BatchInit /\ [][BatchNext]_vars

\* The two services after construction.
Init == SInit /\ JInit /\ arg = NoArg /\ result = NoResult

\* The policies of the two-credential runs.
PairConfigs ==
    {c \in SessionKeyConfig :
        c.rate_limit_per_minute = 1 /\ c.max_uses \in {None, Some(1)}}

\* One credential, any interleaving of the suspended calls.
Spec ==
    Init /\ [][SNext(SessionKeyConfig, MaxIssued, MaxInFlight, MaxInFlight)]_vars

\* The caller serializes the authorize() calls on one token.
SpecSerial ==
    Init /\ [][SNext(SessionKeyConfig, MaxIssued, MaxInFlight, 1)]_vars

\* Two credentials issued one after the other, one suspended call at a time.
SpecPair ==
    Init /\ [][SNext(PairConfigs, MaxTokens, PairInFlight, PairInFlight)]_vars

\* The policies of the runs with calls on two tokens suspended together.
CrossConfigs == {c \in PairConfigs : c.expiry_time = 2 * TickStep}

\* Two credentials, the calls on different tokens suspended together and
\* the calls on one token serialized.
SpecCross ==
    Init /\ [][SNext(CrossConfigs, MaxTokens, MaxInFlight, 1)]_vars

\* The bundle client, one send_bundle call at a time.
SpecBundle == Init /\ [][JNext]_vars

\* ---------------------------------------------------------------- claims

\* The step begins an authorize() call on t: the call is rejected at once,
\* or it is admitted and suspends in _send_transaction.
BeganUse(t) ==
    \/ using'[t] > using[t]
    \/ /\ last = NoEvent
       /\ last'.op = "use"
       /\ last'.token = t
       /\ using'[t] = using[t]

Rejections == {"NotFound", "Inactive", "Expired", "Exhausted"}

\* The confirmed authorizations of t that lie inside the 60-second window
\* ending now.
InWindow(t) == {i \in 1..Len(succ[t]) : now - succ[t][i] < RateWindow}

\* The credential t is in the live table, active, unexpired and has uses left.
Usable(t) ==
    /\ t \in sessions
    /\ objs[t].is_active
    /\ now <= objs[t].config.expiry_time
    /\ objs[t].uses_remaining # 0

\* C1: once revoke(token) has returned, the token is never again a key of
\* the live table, and every authorize(token) that begins afterwards is
\* rejected with NotFound or Inactive, without sending anything to the ledger.
C1_RevokedIsUnusable ==
    [][\A t \in revoked' :
          /\ t \notin sessions'
          /\ t \in revoked /\ BeganUse(t) =>
                /\ using'[t] = using[t]
                /\ last'.outcome \in {"NotFound", "Inactive"}
                /\ ~last'.submitted]_vars

C1_Witness ==
    /\ last.op = "use"
    /\ last.token \in revoked
    /\ last.outcome = "NotFound"
    /\ issued > last.token
    /\ sessions # {}

\* C2: authorize() on a credential of the live table that is past its
\* expiry fails with Expired on its first call, whether or not a sweep pass
\* has run, sends nothing to the ledger and leaves the credential inactive.
C2_ExpiredOnFirstUse ==
    [][\A t \in sessions :
          /\ objs[t].is_active
          /\ now > objs[t].config.expiry_time
          /\ BeganUse(t)
          => /\ last' = Event("use", t, "Expired", FALSE)
             /\ using' = using
             /\ t \in sessions'
             /\ ~objs'[t].is_active]_vars

C2_Witness ==
    /\ cleanup_task = "none"
    /\ last.op = "use"
    /\ last.outcome = "Expired"
    /\ last.token \in sessions
    /\ ~objs[last.token].is_active

\* C3: of the authorize() calls made one after another on a credential with
\* a finite max_uses = M, no more than M succeed, and each success takes one
\* from uses_remaining.
C3_AtMostMaxUses ==
    \A t \in DOMAIN objs :
        objs[t].config.max_uses # None =>
            /\ nsucc[t] <= objs[t].config.max_uses[1]
            /\ nsucc[t] > 0 =>
                  objs[t].uses_remaining = objs[t].config.max_uses[1] - nsucc[t]

\* C4: the authorize() call that follows the consumption of the last use of
\* a credential fails with Exhausted.
C4_ExhaustedAfterLastUse ==
    [][\A t \in sessions :
          /\ objs[t].config.max_uses # None
          /\ objs[t].uses_remaining = 0
          /\ now <= objs[t].config.expiry_time
          /\ BeganUse(t)
          => last' = Event("use", t, "Exhausted", FALSE)]_vars

\* C5: an authorize() call whose submission or confirmation fails takes no
\* use and records no timestamp: before the submission the call changes no
\* credential field and no timestamp of the window, and the failing return
\* changes nothing either.
C5_FailedUseChangesNothing ==
    [][\A t \in Tokens :
          /\ using'[t] > using[t] =>
                /\ objs' = objs
                /\ PruneOld(rate_limit_cache'[t], now)
                     = (IF t \in DOMAIN rate_limit_cache
                        THEN PruneOld(rate_limit_cache[t], now) ELSE <<>>)
          /\ last = NoEvent /\ last'.op = "use" /\ last'.token = t
               /\ last'.outcome = "Failed" =>
                /\ rate_limit_cache' = rate_limit_cache
                /\ \A k \in DOMAIN objs' : objs'[k] = objs[k]]_vars

C5_Witness ==
    /\ last.op = "use"
    /\ last.outcome = "Failed"
    /\ last.submitted
    /\ last.token \in sessions
    /\ objs[last.token].uses_remaining = 1
    /\ objs[last.token].is_active

\* C6 as claimed: once R authorize() calls have succeeded within a 60-second
\* window, the next call inside that window fails with the rate-limit error.
C6_RateLimitError ==
    [][\A t \in DOMAIN objs :
          /\ Cardinality(InWindow(t)) >= objs[t].config.rate_limit_per_minute
          /\ BeganUse(t)
          => last' = Event("use", t, "RateLimit", FALSE)]_vars

\* C6 as amended: once R authorize() calls have succeeded within a 60-second
\* window, the next call inside that window fails and sends nothing to the
\* ledger: with the rate-limit error when the credential is in the live
\* table, active, unexpired and has uses left, and with the authorization
\* error that _validate_session raises otherwise.
C6_RateLimitOrRejected ==
    [][\A t \in DOMAIN objs :
          /\ Cardinality(InWindow(t)) >= objs[t].config.rate_limit_per_minute
          /\ BeganUse(t)
          => /\ using' = using
             /\ ~last'.submitted
             /\ last'.op = "use"
             /\ last'.token = t
             /\ last'.outcome = "RateLimit" <=> Usable(t)
             /\ last'.outcome \in Rejections <=> ~Usable(t)]_vars

C6_Witness ==
    /\ last = Event("use", last.token, "RateLimit", FALSE)
    /\ last.token \in sessions
    /\ objs[last.token].config.rate_limit_per_minute = 2
    /\ Cardinality(InWindow(last.token)) = 2

\* C7: when the rate window of a usable credential holds R recorded uses and
\* 60 seconds have passed since the oldest, a new authorize() call is not
\* rate-limited: it passes every check and goes on to submission.
C7_WindowReopens ==
    [][\A t \in DOMAIN rate_limit_cache :
          /\ Usable(t)
          /\ Len(rate_limit_cache[t]) = objs[t].config.rate_limit_per_minute
          /\ now - rate_limit_cache[t][1] >= RateWindow
          /\ BeganUse(t)
          => /\ using'[t] = using[t] + 1
             /\ last' = NoEvent]_vars

C7_Witness ==
    \E t \in sessions :
        /\ last = Event("use", t, "ok", TRUE)
        /\ objs[t].config.rate_limit_per_minute = 2
        /\ nsucc[t] = 3
        /\ rate_limit_cache[t] = <<now>>

\* C8: a credential that is inactive is never active again, and a token
\* whose credential is gone gets no new credential.
C8_InactiveForever ==
    [][\A t \in Tokens :
          /\ t \in DOMAIN objs /\ t \in DOMAIN objs' /\ ~objs[t].is_active
               => ~objs'[t].is_active
          /\ t <= issued /\ t \notin DOMAIN objs => t \notin DOMAIN objs'
          /\ t <= issued /\ t \notin sessions => t \notin sessions']_vars

C8_Witness ==
    /\ last.op = "use"
    /\ last.outcome = "ok"
    /\ last.token \in sessions
    /\ ~objs[last.token].is_active
    /\ objs[last.token].uses_remaining # 0

\* C9: every credential of the live table with uses_remaining = 0 is inactive.
C9_ExhaustedIsInactive ==
    \A t \in sessions : objs[t].uses_remaining = 0 => ~objs[t].is_active

C9_Witness ==
    \E t \in sessions : objs[t].uses_remaining = 0 /\ last = Event("use", t, "ok", TRUE)

\* C10: whenever _wait_for_bundle_confirmation for a bundle id has ended, by
\* returning the confirmed record or by raising on a failed status or on
\* timeout, the pending table does not contain that bundle id.
C10_PendingFreeAfterWait ==
    jlast.waited => jlast.bundle_id \notin DOMAIN pending_bundles

\* The step ends a send_bundle call that went through
\* _wait_for_bundle_confirmation.
EndedWait == jlast = NoBundleEvent /\ jlast'.waited

\* The step begins a send_bundle call: the call is rejected at once, or it
\* goes on to its first request.
BeganSend ==
    /\ call.pc = "idle"
    /\ jlast = NoBundleEvent
    /\ call' # call \/ jlast' # jlast

\* C11: a bundle record is appended to the history exactly when a poll of
\* its call was told `confirmed`: the call then ends with one record added,
\* of status confirmed and with its latency set, and with the id out of the
\* pending table; a call that ends otherwise adds nothing, and no other step
\* adds to the history.
C11_HistoryIffConfirmed ==
    [][/\ EndedWait =>
              IF "confirmed" \in jtrace'.seen
              THEN /\ jlast'.outcome = "Confirmed"
                   /\ Len(bundle_history') = Len(bundle_history) + 1
                   /\ SubSeq(bundle_history', 1, Len(bundle_history)) = bundle_history
                   /\ LET rec == bundle_history'[Len(bundle_history')]
                      IN  /\ rec.bundle_id = jlast'.bundle_id
                          /\ rec.status = "confirmed"
                          /\ rec.confirmation_time # None
                   /\ jlast'.bundle_id \notin DOMAIN pending_bundles'
              ELSE bundle_history' = bundle_history
       /\ ~EndedWait => bundle_history' \in {bundle_history, <<>>}]_vars

\* C12: a call whose every poll was told `pending` ends after exactly
\* max_retries polls, with the timeout error, and its record in the pending
\* table has the status timeout.
C12_PendingTimesOut ==
    [][EndedWait /\ jtrace'.seen \subseteq {"pending"} =>
          /\ jlast'.outcome = "Timeout"
          /\ jlast'.polls = call.max_retries
          /\ jtrace'.posts = 1 + call.max_retries
          /\ jlast'.bundle_id \in DOMAIN pending_bundles' =>
                pending_bundles'[jlast'.bundle_id].status = "timeout"]_vars

C12_Witness ==
    /\ jlast.outcome = "Timeout"
    /\ jlast.polls = 3
    /\ jtrace.seen = {"pending"}
    /\ jlast.bundle_id \in DOMAIN pending_bundles
    /\ pending_bundles[jlast.bundle_id].status = "timeout"

\* C13: a poll that is told `failed` ends the wait: once a call has been told
\* `failed` it is over, it polls no more, and its id is out of the pending
\* table.
C13_FailedIsTerminal ==
    "failed" \in jtrace.seen =>
        /\ call.pc = "idle"
        /\ jlast.waited => jlast.bundle_id \notin DOMAIN pending_bundles

RECURSIVE Flatten(_)
Flatten(groups) ==
    IF groups = <<>> THEN <<>> ELSE Head(groups) \o Flatten(Tail(groups))

\* C15: grouping L instructions by K gives ceil(L / K) groups, whose
\* concatenation in order is the original sequence; every group but the last
\* has K elements and the last has between 1 and K.
C15_GroupsAreChunks ==
    result.op = "group" =>
        LET groups == result.groups
            L == Len(arg.instructions)
            K == MaxInstructionsPerTx
        IN  /\ Len(groups) = (L + K - 1) \div K
            /\ Flatten(groups) = arg.instructions
            /\ \A g \in 1..Len(groups) :
                  IF g < Len(groups) THEN Len(groups[g]) = K
                  ELSE Len(groups[g]) \in 1..K

C15_Witness ==
    /\ result.op = "group"
    /\ Len(arg.instructions) = 2 * MaxInstructionsPerTx + 1
    /\ Len(result.groups) = 3
    /\ Len(result.groups[3]) = 1

\* The instructions of kind k in the sequence p.
OfKind(p, k) == {j \in 1..Len(p) : p[j].kind = k}

\* What prepare owes: the transactions in order, each with a compute-unit
\* limit and a compute-unit price ahead of its own instructions in their
\* order, and one tip transfer in all, in the last transaction.
PreparedAsClaimed(transactions, prepared) ==
    /\ Len(prepared) = Len(transactions)
    /\ \A i \in 1..Len(transactions) :
          LET p == prepared[i]
              own == transactions[i].instructions
              ahead == Len(p) - Len(own)
          IN  /\ ahead >= 2
              /\ SubSeq(p, ahead + 1, Len(p)) = own
              /\ \E j \in 1..ahead : p[j].kind = "limit"
              /\ \E j \in 1..ahead : p[j].kind = "price"
              /\ Cardinality(OfKind(p, "tip"))
                   = IF i = Len(transactions) THEN 1 ELSE 0

\* C16: for every non-empty list of transactions, every prepared transaction
\* carries a compute-unit limit and a compute-unit price ahead of its own
\* instructions, the set carries one tip transfer, in the last transaction,
\* and the order of the transactions is kept.
C16_PreparedLayout ==
    result.op \in {"prepare", "packaged_prepare"} /\ arg.transactions # <<>> =>
        PreparedAsClaimed(arg.transactions, result.prepared)

\* C16 for _prepare_bundle_transactions of the SDK alone.
C16_PreparedLayoutOfSdk ==
    result.op = "prepare" /\ arg.transactions # <<>> =>
        PreparedAsClaimed(arg.transactions, result.prepared)

\* C17: estimate_bundle_fee returns an estimate and never raises, whatever
\* the count, the level and the answer of the network, and also on an
\* internal error, where the estimate it returns carries the error field.
C17_EstimateNeverRaises ==
    result.op = "estimate" =>
        /\ ~result.value.raised
        /\ result.value.transaction_count = arg.transaction_count
        /\ arg.fault => result.value.error

C17_Witness ==
    /\ result.op = "estimate"
    /\ arg.fault
    /\ arg.reply.raises
    /\ result.value.error
    /\ result.value.priority_fee = FallbackPriorityFee

\* The four amounts of an estimate.
Amounts(e) == <<e.base_fee, e.priority_fee, e.recommended_tip, e.total_estimated>>

\* C18: without internal error the levels low, medium and high apply the
\* multipliers 1, 2 and 5 to the average fee of the network, or to the
\* default average when the query failed or returned no fee, and any other
\* level gives the amounts of medium.
C18_LevelMultipliers ==
    result.op = "estimate" /\ ~arg.fault =>
        LET fees == arg.reply.fees
            k == CASE arg.priority_level = "low" -> 1
                   [] arg.priority_level = "high" -> 5
                   [] OTHER -> 2
        IN  /\ result.value.priority_fee =
                  IF arg.reply.raises \/ fees = <<>> THEN DefaultAverageFee * k
                  ELSE (SumSeq(fees) * k) \div Len(fees)
            /\ arg.priority_level \notin {"low", "medium", "high"} =>
                  Amounts(result.value)
                    = Amounts(EstimateFee(arg.transaction_count, "medium",
                                          arg.reply, arg.fault))

C18_Witness ==
    /\ result.op = "estimate"
    /\ arg.priority_level = "urgent"
    /\ arg.reply.fees = <<1000, 2001>>
    /\ result.value.priority_fee = 3001
    /\ ~result.value.error

\* A step that is one pass of the sweep: the only step that changes the
\* tables while the task runs, no call begins, ends or returns and the clock
\* stands still.
SweepPass ==
    /\ cleanup_task = "running" /\ cleanup_task' = "running"
    /\ last = NoEvent /\ last' = NoEvent
    /\ UNCHANGED <<now, wallet, issued, using, revoking, revoked>>
    /\ <<sessions, rate_limit_cache>>' # <<sessions, rate_limit_cache>>

\* C19: a pass of the sweep removes from the live table every credential
\* that is inactive or past its expiry at the time of the pass, and after
\* the pass no removed token has an entry in the rate-window table.
C19_SweepRemovesStale ==
    [][SweepPass =>
          /\ \A t \in sessions :
                 ~objs[t].is_active \/ now > objs[t].config.expiry_time
                     => t \notin sessions'
          /\ \A t \in sessions \ sessions' :
                 t \notin DOMAIN rate_limit_cache']_vars

\* A pass has removed the later of two credentials, which had been used and
\* so had a rate window, and has left the earlier one in the table.
C19_Witness ==
    \E t \in DOMAIN nsucc : \E u \in sessions :
        /\ u < t
        /\ t \notin sessions
        /\ t \notin revoked
        /\ nsucc[t] >= 1
        /\ t \notin DOMAIN rate_limit_cache
        /\ cleanup_task = "running"

\* C20: list_active returns one entry for exactly the credentials of the
\* live table that are active and not past their expiry at the time of the
\* call, and changes no state.
C20_ListIsActiveUnexpired ==
    result.op = "list" =>
        result.tokens =
            {t \in sessions :
                objs[t].is_active /\ ~(now > objs[t].config.expiry_time)}

\* C21: describe(token) fails with NotFound for a token that is not in the
\* live table; otherwise it returns the credential's active flag, its
\* remaining uses and an expiry flag computed from the current time; in both
\* cases the live table, the rate-window table and every credential field
\* stay as they were, so an expired credential is not marked inactive.
C21_DescribeReadsOnly ==
    [][last = NoEvent /\ last'.op = "describe" =>
          LET t == last'.token
          IN  /\ UNCHANGED <<sessions, objs, rate_limit_cache>>
              /\ IF t \notin sessions
                 THEN last'.outcome = "NotFound" /\ result' = NoResult
                 ELSE /\ last'.outcome = "ok"
                      /\ result'.op = "describe"
                      /\ result'.value.is_active = objs[t].is_active
                      /\ result'.value.uses_remaining = objs[t].uses_remaining
                      /\ result'.value.is_expired
                            = (now > objs[t].config.expiry_time)]_vars

\* describe has just reported an expired credential that is still active.
C21_Witness ==
    /\ last.op = "describe"
    /\ last.outcome = "ok"
    /\ result.op = "describe"
    /\ result.value.is_expired
    /\ result.value.is_active
    /\ objs[last.token].is_active

\* The step is a revoke(t) call that ends without suspending.
RevokeRejected(t) ==
    /\ last = NoEvent
    /\ last'.op = "revoke"
    /\ last'.token = t
    /\ revoking'[t] = revoking[t]

\* The step begins, or ends, a revoke(t) call that submits to the ledger.
RevokeSubmits(t) == revoking'[t] > revoking[t]
RevokeEnds(t) == revoking'[t] < revoking[t]

\* What revoke does to a token of the live table: nothing before the
\* submission ends; removal with a confirmed submission; nothing at all with
\* a failed one, the credential staying in the table with its fields.
RevokeRemovesOnConfirmation(t) ==
    /\ RevokeSubmits(t) => t \in sessions /\ UNCHANGED <<sessions, objs>>
    /\ RevokeEnds(t) /\ last'.outcome = "ok" =>
          /\ last'.submitted
          /\ t \in sessions
          /\ sessions' = sessions \ {t}
    /\ RevokeEnds(t) /\ last'.outcome # "ok" =>
          /\ sessions' = sessions
          /\ t \in sessions => objs'[t] = objs[t]

\* C22 as stated: revoke on an unknown token fails with NotFound without
\* any ledger submission; revoke on a known token removes the credential
\* from the live table only after the revoke submission is confirmed, and a
\* revoke whose submission fails leaves the credential in the live table
\* with all fields unchanged.
C22_UnknownIsNotFound ==
    [][\A t \in Tokens :
          /\ t \notin sessions /\ RevokeRejected(t) =>
                last'.outcome = "NotFound" /\ ~last'.submitted
          /\ RevokeRemovesOnConfirmation(t)]_vars

\* C22 amended: revoke on an unknown token fails without any ledger
\* submission, with NotFound when a delegator wallet is available and with
\* the missing-wallet error otherwise; the rest as stated.
C22_UnknownIsRejectedUnsent ==
    [][\A t \in Tokens :
          /\ t \notin sessions /\ RevokeRejected(t) =>
                /\ ~last'.submitted
                /\ last'.outcome \in {"NotFound", "NoWallet"}
                /\ wallet => last'.outcome = "NotFound"
          /\ t \notin sessions => ~RevokeSubmits(t)
          /\ RevokeRemovesOnConfirmation(t)]_vars

\* A revoke whose submission was sent and not confirmed has just failed,
\* and the credential is in the live table, active, for a second attempt.
C22_Witness ==
    \E t \in sessions :
        /\ last = Event("revoke", t, "Failed", TRUE)
        /\ objs[t].is_active
        /\ wallet

\* The uses a policy grants: its max_uses, or -1 when it gives none.
GrantedUses(config) ==
    IF config.max_uses = None THEN Unlimited ELSE config.max_uses[1]

\* C23: a successful issue adds exactly one credential to the live table,
\* under a token that was not there, active and with uses_remaining equal to
\* the max_uses of its policy (-1 when the policy gives none), and leaves
\* every other credential unchanged; an issue without a delegator wallet, or
\* whose creation submission fails, adds nothing.
C23_IssueAddsOneCredential ==
    [][last = NoEvent /\ last'.op = "create" =>
          IF last'.outcome = "ok"
          THEN LET t == last'.token
               IN  /\ t \notin sessions
                   /\ sessions' = sessions \cup {t}
                   /\ objs'[t].is_active
                   /\ objs'[t].uses_remaining = GrantedUses(objs'[t].config)
                   /\ \A u \in sessions : objs'[u] = objs[u]
                   /\ UNCHANGED rate_limit_cache
          ELSE UNCHANGED <<sessions, objs, rate_limit_cache>>]_vars

\* C24: use_session holds no lock between its checks and its usage update,
\* so two authorize() calls on one token that are suspended together have
\* both passed the validity and rate checks before either records its use:
\* a credential with max_uses M >= 1 can reach more than M confirmed
\* submissions, and more than R within 60 seconds (C24_Witness). The excess
\* comes from the calls suspended together only: with at most MaxInFlight
\* of them, neither count goes more than MaxInFlight - 1 over its ceiling.
C24_RaceOvershootsByInFlight ==
    \A t \in DOMAIN objs :
        LET config == objs[t].config
        IN  /\ config.max_uses # None /\ config.max_uses[1] >= 1 =>
                  nsucc[t] <= config.max_uses[1] + (MaxInFlight - 1)
            /\ Cardinality(InWindow(t))
                  <= config.rate_limit_per_minute + (MaxInFlight - 1)

\* Two interleaved authorize() calls were both confirmed on a credential
\* with max_uses = 1 and R = 1.
C24_Witness ==
    \E t \in DOMAIN objs :
        /\ objs[t].config.max_uses = Some(1)
        /\ objs[t].config.rate_limit_per_minute = 1
        /\ nsucc[t] = 2
        /\ Cardinality(InWindow(t)) = 2
        /\ objs[t].uses_remaining = 0

\* The step is a step of an authorize, revoke or describe call on t.
OperatesOn(t) ==
    \/ using'[t] # using[t]
    \/ revoking'[t] # revoking[t]
    \/ /\ last = NoEvent
       /\ last'.op \in {"use", "revoke", "describe"}
       /\ last'.token = t

\* The step leaves the credential u and its rate window as they are.
Untouched(u) ==
    /\ u \in sessions <=> u \in sessions'
    /\ u \in DOMAIN objs => u \in DOMAIN objs' /\ objs'[u] = objs[u]
    /\ u \in DOMAIN rate_limit_cache <=> u \in DOMAIN rate_limit_cache'
    /\ u \in DOMAIN rate_limit_cache =>
          rate_limit_cache'[u] = rate_limit_cache[u]

\* C25: a step of authorize (its lazy expiry marking included), revoke or
\* describe on one credential never changes another credential's
\* uses_remaining, is_active, policy or rate window, nor its place in the
\* live table, whatever calls on the other token are suspended meanwhile.
C25_OtherCredentialUntouched ==
    [][\A t \in Tokens : OperatesOn(t) =>
          \A u \in Tokens \ {t} : Untouched(u)]_vars

\* A call on the second credential has just ended while a call on the
\* first, which has a rate window, is suspended.
C25_Witness ==
    /\ sessions = {1, 2}
    /\ last.op \in {"use", "revoke"}
    /\ last.token = 2
    /\ last.submitted
    /\ using[1] + revoking[1] > 0
    /\ 1 \in DOMAIN rate_limit_cache
    /\ rate_limit_cache[1] # <<>>

\* The step removes a credential from the live table and is no step of a
\* call: a pass of the sweep.
SilentRemoval ==
    /\ sessions' # sessions
    /\ last = NoEvent /\ last' = NoEvent
    /\ revoking' = revoking

C27_ShutdownReleasesAll ==
    result.op = "shutdown" /\ ~arg.faults.memory /\ ~arg.faults.close =>
        /\ ~result.value.raised
        /\ result.value.called = Services
        /\ result.value.closed

\* The relay has answered the request of this step with a non-200 status or
\* with an `error` field in a 200 response.
RelayRefused == jtrace'.reply \in {"Non200", "Error"}

\* C28: a relay response with a non-200 status, or with an error field in a
\* 200 response, makes the request fail, the sendBundle request and the
\* getBundleStatuses request alike: send_bundle fails at the submission and
\* registers no bundle, the status query raises instead of returning a
\* status, and no such response ends in a confirmed bundle.
C28_RelayErrorFailsRequest ==
    [][/\ call.pc = "submitting" /\ RelayRefused =>
             /\ jlast'.outcome = "SubmitFailed"
             /\ pending_bundles' = pending_bundles
       /\ call.pc = "polling" /\ RelayRefused =>
             /\ jtrace'.seen = jtrace.seen \cup {"Raise"}
             /\ jlast'.outcome \notin {"Confirmed", "Timeout"}]_vars

\* The step ends _submit_bundle_to_jito with an identifier returned.
SubmitReturned == call.pc = "submitting" /\ (call'.pc = "polling" \/ jlast'.waited)

\* C29: the submission makes a single relay call and returns the bundle
\* identifier the relay assigned in its success response; it returns no
\* identifier that the relay did not assign.
C29_ReturnsAssignedId ==
    [][SubmitReturned =>
          /\ jtrace'.posts = 1
          /\ jtrace'.reply = "Assigned"
          /\ (IF call'.pc = "polling" THEN call'.bundle_id ELSE jlast'.bundle_id)
                \in 1..MaxBundleIds]_vars

\* C30: the key material of a credential is zeroed when the credential is
\* removed from the live table, by revoke, by a pass of the sweep or by
\* cleanup(): in every state the only session keypairs left unzeroed are
\* those of the credentials in the live table.
C30_RemovedKeysAreZeroed == session_keypairs \subseteq sessions

\* The step is an authorize() call on t that is rejected by a check.
UseRejected(t) ==
    /\ last = NoEvent
    /\ last'.op = "use"
    /\ last'.token = t
    /\ last'.outcome \in Rejections \cup {"RateLimit"}

\* The timestamps of the rate window of t, none when it has no window.
Stamps(cache, t) == IF t \in DOMAIN cache THEN cache[t] ELSE <<>>

\* C31: an authorize() call rejected for NotFound, Inactive, Expired,
\* Exhausted or the rate limit submits nothing to the ledger, ends at once
\* (it is not suspended and not tried again), leaves uses_remaining as it
\* was and adds no timestamp to the rate window, whose timestamps after the
\* call are those of before less the ones pruned for their age; the count
\* of confirmed uses does not move.
C31_RejectedUseCountsNothing ==
    [][\A t \in Tokens : UseRejected(t) =>
          /\ ~last'.submitted
          /\ using' = using
          /\ sessions' = sessions
          /\ \A u \in DOMAIN objs :
                /\ u \in DOMAIN objs'
                /\ objs'[u].uses_remaining = objs[u].uses_remaining
          /\ Stamps(rate_limit_cache', t)
                = PruneOld(Stamps(rate_limit_cache, t), now)
                \/ Stamps(rate_limit_cache', t) = Stamps(rate_limit_cache, t)
          /\ UNCHANGED <<succ, nsucc>>]_vars

\* A call has just been rejected for the rate limit on a credential whose
\* window holds the one use its policy allows.
C31_Witness ==
    \E t \in sessions :
        /\ last = Event("use", t, "RateLimit", FALSE)
        /\ objs[t].config.rate_limit_per_minute = 1
        /\ Len(rate_limit_cache[t]) = 1
        /\ nsucc[t] = 1

\* C32: a credential issued with max_uses = 0 authorizes no use at all, and
\* only a policy without max_uses has the unlimited sentinel
\* uses_remaining = -1; a use of a credential with the sentinel leaves the
\* sentinel and the active flag as they are.
C32_ZeroUsesAuthorizesNone ==
    [][\A t \in DOMAIN objs' :
          /\ objs'[t].config.max_uses = Some(0) => nsucc'[t] = 0
          /\ objs'[t].uses_remaining = Unlimited =>
                objs'[t].config.max_uses = None
          /\ t \in DOMAIN objs /\ objs[t].uses_remaining = Unlimited
               /\ last'.op = "use" /\ last'.token = t /\ last'.outcome = "ok" =>
                objs'[t] = objs[t]]_vars

\* C33: with the authorize() calls on a token serialized, the rate window of
\* the token never holds more timestamps than the rate_limit_per_minute of
\* its policy: no step takes it over that ceiling, and once the credential
\* object is gone the window gets no further timestamp.
C33_WindowWithinCeiling ==
    [][\A t \in DOMAIN rate_limit_cache' :
          IF t \in DOMAIN objs
          THEN Len(rate_limit_cache'[t]) <= objs[t].config.rate_limit_per_minute
          ELSE IF t \in DOMAIN objs'
          THEN Len(rate_limit_cache'[t]) <= objs'[t].config.rate_limit_per_minute
          ELSE Len(rate_limit_cache'[t]) <= Len(Stamps(rate_limit_cache, t))]_vars

\* A second confirmed use has filled the window of a credential with R = 2.
C33_Witness ==
    \E t \in sessions :
        /\ last = Event("use", t, "ok", TRUE)
        /\ objs[t].config.rate_limit_per_minute = 2
        /\ Len(rate_limit_cache[t]) = 2

\* The step is one turn of the loop of _wait_for_bundle_confirmation.
Polled == call.pc = "polling" /\ jtrace'.posts = jtrace.posts + 1

\* C34: for every max_retries >= 0 and every behaviour of the relay, the
\* wait ends after at most max_retries status polls: a call that is polling
\* has made fewer than max_retries polls, every poll either ends the call or
\* is counted, and the call ends by returning a confirmed record, which it
\* has added to the history, or by raising; a status query that fails
\* before the last attempt is followed by another poll.
C34_WaitEndsWithinRetries ==
    [][/\ call'.pc = "polling" => call'.attempt < call'.max_retries
       /\ Polled =>
             \/ /\ call'.pc = "polling"
                /\ call'.attempt = call.attempt + 1
                /\ jlast' = NoBundleEvent
             \/ /\ call'.pc = "idle"
                /\ jlast'.waited
                /\ jlast'.polls = call.attempt + 1
       /\ Polled /\ jtrace'.reply = "Raise"
            /\ call.attempt < call.max_retries - 1 => call'.pc = "polling"
       /\ EndedWait =>
             /\ jlast'.polls <= call.max_retries
             /\ jlast'.outcome \in {"Confirmed", "Timeout", "LastAttemptFailed"}
             /\ jlast'.outcome = "Confirmed" =>
                   /\ Len(bundle_history') = Len(bundle_history) + 1
                   /\ bundle_history'[Len(bundle_history')].status = "confirmed"]_vars

\* The wait has ended on its last poll with the confirmed record, after a
\* status query that failed.
C34_Witness ==
    /\ jlast.outcome = "Confirmed"
    /\ jlast.polls = MaxRetries
    /\ "Raise" \in jtrace.seen
    /\ bundle_history # <<>>

\* C35: in every reachable state the counters of the bundle statistics add
\* up, total_bundles = successful_bundles + failed_bundles, and the success
\* rate successful / max(total, 1) lies between 0 and 1.
C35_CountersAddUp ==
    /\ bundle_stats.total_bundles
         = bundle_stats.successful_bundles + bundle_stats.failed_bundles
    /\ bundle_stats.successful_bundles >= 0
    /\ bundle_stats.successful_bundles <= bundle_stats.total_bundles

C37_SweepKeepsValid ==
    [][SweepPass =>
          \A t \in sessions :
              objs[t].is_active /\ ~(now > objs[t].config.expiry_time)
                  => Untouched(t)]_vars

\* A pass has removed the later of two credentials and has left the earlier
\* one, active, at its expiry and with a rate window, in the table.
C37_Witness ==
    \E u \in sessions : \E t \in Tokens \ sessions :
        /\ u < t
        /\ t <= issued
        /\ t \notin revoked
        /\ cleanup_task = "running"
        /\ objs[u].is_active
        /\ now = objs[u].config.expiry_time
        /\ u \in DOMAIN rate_limit_cache
        /\ rate_limit_cache[u] # <<>>

\* C38: every token with a rate window is a key of the live table, and
\* after a successful revoke(token) the rate-window table holds no entry for
\* the token.
C38_WindowsOfLiveOnly ==
    /\ DOMAIN rate_limit_cache \subseteq sessions
    /\ last.op = "revoke" /\ last.outcome = "ok" =>
          last.token \notin DOMAIN rate_limit_cache

\* C39: authorize, list_active and describe agree on expiry at every time,
\* the expiry timestamp of the policy included: list_active lists an active
\* credential exactly when authorize at that time would not reject it as
\* expired, and describe reports is_expired on an active credential exactly
\* when authorize would reject it as expired.
C39_ExpiryAgreement ==
    /\ result.op = "list" =>
          \A t \in sessions :
              objs[t].is_active =>
                  (t \in result.tokens <=> ValidateOutcome(t) # "Expired")
    /\ result.op = "describe" /\ last.outcome = "ok" =>
          (objs[last.token].is_active =>
              (result.value.is_expired
                  <=> ValidateOutcome(last.token) = "Expired"))

\* C40: in send_batch with optimize_transactions set, the progress callback
\* is called once for each message sent, and its i-th call has current = i
\* and total = the number of messages of the batch, for every batch length.
C40_ProgressCountsSent ==
    arg.op = "batch" /\ result.op = "batch"
        /\ arg.optimize_transactions /\ arg.progress_callback =>
            /\ Len(result.progress) = Len(result.signatures)
            /\ \A i \in 1..Len(result.progress) :
                   result.progress[i] = <<i, Len(arg.messages)>>

====
